---- MODULE Spec2Model ----
(***************************************************************************)
(* Model of the StaffScheduler scheduling engine                           *)
(* (src/scheduler/solver.py, src/scheduler/models.py).                     *)
(*                                                                         *)
(* The engine (AdvancedScheduleSolver) holds a business scenario, the      *)
(* policy fields and the list of raw solutions it returned.  solve()       *)
(* rebuilds the CP-SAT model, asks the CP solver for an assignment of the  *)
(* 0/1 shift variables and assembles a Schedule from it.  The CP solver is *)
(* modelled by what it guarantees: solve() accepts status OPTIMAL and      *)
(* FEASIBLE alike (solver.py:601), so the assignment it extracts is any    *)
(* assignment that satisfies every constraint added with Add / AddBoolOr / *)
(* AddImplication / AddMaxEquality.  The status is OPTIMAL when that       *)
(* assignment maximises the objective handed to Maximize(), and FEASIBLE   *)
(* when the time limit ended the search at a lesser one.                   *)
(***************************************************************************)
EXTENDS Integers, Sequences, FiniteSets, TLC

VARIABLES
    employees,              \* business.employees: set of employee records (unique ids)
    start_hour,             \* business.start_hour
    end_hour,               \* business.end_hour
    days_open,              \* business.days_open
    coverage_requirements,  \* business.coverage_requirements, as indexed by the engine
    policy,                 \* the policy fields passed to the engine's constructor
    previous_solutions,     \* engine._previous_solutions: sequence of raw maps
    schedule,               \* the Schedule returned by the last solve()
    status,                 \* the status CpSolver.Solve returned to the last solve()
    call,                   \* the last operation performed on the engine
    calls,                  \* number of solve() calls made so far
    shift_templates,        \* business.shift_templates: sequence of templates
    role_coverage_configs,  \* business.role_coverage_configs: sequence of configs
    peak_periods,           \* business.peak_periods: sequence of periods
    coverage_mode,          \* business.coverage_mode: "shifts" or "detailed"
    business_coverage,      \* business.coverage_requirements, the list now stored
    compiled,               \* what the last generate_coverage_requirements() returned
    edits,                  \* number of edits of the business made so far
    pto_requests,           \* the PTORequest rows of the business
    week,                   \* weekOffset of the schedule request last received
    last_week               \* weekOffset of the schedule request before that one

vars == <<employees, start_hour, end_hour, days_open, coverage_requirements,
          policy, previous_solutions, schedule, status, call, calls,
          shift_templates, role_coverage_configs, peak_periods, coverage_mode,
          business_coverage, compiled, edits, pto_requests, week, last_week>>

scenario == <<employees, start_hour, end_hour, days_open, coverage_requirements, policy>>

\* the time-off requests and the weeks asked for
requests == <<pto_requests, week, last_week>>

\* the coverage configuration of the business the engine was constructed on
business == <<shift_templates, role_coverage_configs, peak_periods, coverage_mode,
              business_coverage>>

(***************************************************************************)
(* Bounds and program constants                                            *)
(***************************************************************************)
\* number of solve() calls the model follows on one engine, for a scenario
\* of at most MaxSeqVars shift variables
MaxSolves == 3

\* the same, for a scenario of more than MaxSeqVars shift variables
MaxSolvesLarge == 1

\* scenarios up to this many shift variables are followed for MaxSolves calls
MaxSeqVars == 1

\* largest number of shift variables of a modelled scenario
MaxVars == 4

\* latest closing hour of a modelled scenario
MaxEndHour == 12

\* most shift templates a modelled business holds
MaxTemplates == 2

\* most edits of its coverage configuration a modelled business receives
MaxEdits == 1

\* weekly hours above which overtime starts
OVERTIME_THRESHOLD == 40

\* weights of the objective terms
WEIGHT_COVERAGE == 1000

WEIGHT_PREFERENCE == 10

WEIGHT_CONSECUTIVE_PT == 5

WEIGHT_CONSECUTIVE_FT == 5

WEIGHT_FAIRNESS == 10

WEIGHT_OVERTIME == 20

WEIGHT_MINIMIZE_HOURS == 5

WEIGHT_MAXIMIZE_HOURS == 5

\* first day index that counts as weekend (Sat = 5, Sun = 6)
FIRST_WEEKEND_DAY == 5

\* CoverageRequirement.max_staff default
DEFAULT_MAX_STAFF == 99

(***************************************************************************)
(* Small helpers                                                           *)
(***************************************************************************)
Min(a, b) == IF a <= b THEN a ELSE b

\* sorted(...): the integers of a set in ascending order
RECURSIVE sorted(_)
sorted(S) ==
    IF S = {} THEN << >>
    ELSE LET m == CHOOSE m \in S : \A o \in S : m <= o
         IN  <<m>> \o sorted(S \ {m})

RECURSIVE SumOver(_, _)
SumOver(S, f) ==
    IF S = {} THEN 0
    ELSE LET e == CHOOSE e \in S : TRUE
         IN  f[e] + SumOver(S \ {e}, f)

(***************************************************************************)
(* Domain model (src/scheduler/models.py)                                  *)
(***************************************************************************)
\* BusinessScenario.get_operating_hours: range(start_hour, end_hour)
get_operating_hours == start_hour .. (end_hour - 1)

\* is_available with the time-off test left out
is_available_without_time_off(emp, day, hour) ==
    <<day, hour>> \in emp.availability

\* Employee.is_available: in availability and not in time_off
is_available(emp, day, hour) ==
    /\ <<day, hour>> \in emp.availability
    /\ <<day, hour>> \notin emp.time_off

\* Employee.prefers
prefers(emp, day, hour) == <<day, hour>> \in emp.preferences

\* AdvancedScheduleSolver._get_employees_for_role
get_employees_for_role(role_id) == {e \in employees : role_id \in e.roles}

\* AdvancedScheduleSolver._get_supervisors
get_supervisors == {e \in employees : e.can_supervise}

\* AdvancedScheduleSolver._get_employees_needing_supervision
get_employees_needing_supervision == {e \in employees : e.needs_supervision}

(***************************************************************************)
(* Decision variables of the CP model (solver.py:116-141)                  *)
(***************************************************************************)
\* keys of self._shift_vars: (emp.id, day, hour, role_id)
shift_vars ==
    UNION { {<<e.id, d, h, r>> : d \in days_open, h \in get_operating_hours, r \in e.roles}
            : e \in employees }

\* the shift variables of one employee at one (day, hour), over the employee's roles
role_vars(emp, day, hour) == {<<emp.id, day, hour, r>> : r \in emp.roles}

\* number of variables of the set K that the assignment x sets to 1: sum(K)
Ones(x, K) == Cardinality({k \in K : x[k] = 1})

\* AddMaxEquality(working, role_vars): the employee works that hour in some role
working(x, emp, day, hour) == \E k \in role_vars(emp, day, hour) : x[k] = 1

\* the shift variables of one employee on one day
day_shifts(emp, day) == {<<emp.id, day, h, r>> : h \in get_operating_hours, r \in emp.roles}

\* works_day[emp, day]: max over the day's shift variables, 0 when there are none
works_day(x, emp, day) == \E k \in day_shifts(emp, day) : x[k] = 1

\* all shift variables of one employee
weekly_vars(emp) == UNION {day_shifts(emp, d) : d \in days_open}

(***************************************************************************)
(* Hard constraints added by _build_model (solver.py:143-432, 448-469,     *)
(* 518-531).  x is an assignment of 0/1 to every key of shift_vars.        *)
(***************************************************************************)
\* 1. availability & time-off: a variable of an unavailable slot is 0
AvailabilityConstraint(x) ==
    \A e \in employees : \A d \in days_open : \A h \in get_operating_hours :
        \A k \in role_vars(e, d, h) :
            ~is_available(e, d, h) => x[k] = 0

\* one role per hour with the sum bounded by the number of roles
OneRolePerHour_len(x) ==
    \A e \in employees : \A d \in days_open : \A h \in get_operating_hours :
        role_vars(e, d, h) # {} =>
            Ones(x, role_vars(e, d, h)) <= Cardinality(role_vars(e, d, h))

\* 2. one role per hour: sum(role_vars) <= 1
OneRolePerHour(x) ==
    \A e \in employees : \A d \in days_open : \A h \in get_operating_hours :
        role_vars(e, d, h) # {} => Ones(x, role_vars(e, d, h)) <= 1

\* max hours per day with the employee's weekly maximum as the cap
MaxHoursPerDay_weekly_cap(x) ==
    \A e \in employees : \A d \in days_open :
        day_shifts(e, d) # {} => Ones(x, day_shifts(e, d)) <= e.max_hours

\* 2b. max hours per day: sum(daily_hours) <= max_hours_per_day
MaxHoursPerDay(x) ==
    \A e \in employees : \A d \in days_open :
        day_shifts(e, d) # {} => Ones(x, day_shifts(e, d)) <= policy.max_hours_per_day

\* a requirement is handled only if its day is open and its hour an operating hour
in_window(req) == req.day \in days_open /\ req.hour \in get_operating_hours

\* role_shifts of a requirement: the variables of the eligible employees
role_shifts(req) ==
    {<<e.id, req.day, req.hour, req.role_id>> : e \in get_employees_for_role(req.role_id)}

\* role coverage with the default cap in place of the requirement's max_staff
CoverageConstraint_default_max(x) ==
    \A req \in coverage_requirements :
        (in_window(req) /\ role_shifts(req) # {}) =>
            Ones(x, role_shifts(req)) <= DEFAULT_MAX_STAFF

\* 3. role coverage: the minimum is reified on coverage_met, which only enters
\*    the objective; the maximum is added unconditionally.  Nothing is added
\*    when no employee is eligible.
CoverageConstraint(x) ==
    \A req \in coverage_requirements :
        (in_window(req) /\ role_shifts(req) # {}) =>
            Ones(x, role_shifts(req)) <= req.max_staff

\* the variables of all supervisors at one (day, hour)
supervisor_working_vars(day, hour) ==
    UNION {role_vars(sup, day, hour) : sup \in get_supervisors}

\* 4. supervision: enforced only when some supervisor variable exists
SupervisionConstraint(x) ==
    \A e \in get_employees_needing_supervision :
        \A d \in days_open : \A h \in get_operating_hours :
            (role_vars(e, d, h) # {} /\ supervisor_working_vars(d, h) # {}) =>
                (working(x, e, d, h) => Ones(x, supervisor_working_vars(d, h)) >= 1)

\* the overtime cap of an employee
effective_max(emp) ==
    IF emp.overtime_allowed THEN emp.max_hours
    ELSE Min(OVERTIME_THRESHOLD, emp.max_hours)

\* 5. weekly hours: added only for an employee that has variables
WeeklyHoursConstraint(x) ==
    \A e \in employees :
        weekly_vars(e) # {} =>
            /\ Ones(x, weekly_vars(e)) >= e.min_hours
            /\ Ones(x, weekly_vars(e)) <= effective_max(e)

\* working now and not working the operating hour before (the first
\* operating hour is a start whenever it is worked)
is_shift_start(x, emp, day, hour) ==
    /\ working(x, emp, day, hour)
    /\ (hour = start_hour \/ ~working(x, emp, day, hour - 1))

\* minimum shift length without the end-of-day branch
MinShiftLength_no_end_of_day(x) ==
    \A e \in employees : \A d \in days_open : \A h \in get_operating_hours :
        (role_vars(e, d, h) # {}
           /\ (h - start_hour) + policy.min_shift_hours <= end_hour - start_hour) =>
            \A j \in 0 .. (policy.min_shift_hours - 1) :
                is_shift_start(x, e, d, h) => working(x, e, d, h + j)

\* 6. minimum shift length: a start implies the next min_shift_hours hours,
\*    and is forbidden where fewer operating hours remain
MinShiftLength(x) ==
    \A e \in employees : \A d \in days_open : \A h \in get_operating_hours :
        role_vars(e, d, h) # {} =>
            IF (h - start_hour) + policy.min_shift_hours <= end_hour - start_hour
            THEN \A j \in 0 .. (policy.min_shift_hours - 1) :
                    is_shift_start(x, e, d, h) => working(x, e, d, h + j)
            ELSE ~is_shift_start(x, e, d, h)

\* sum(shift_start_vars) of one employee on one day
shift_starts(x, emp, day) ==
    Cardinality({h \in get_operating_hours : is_shift_start(x, emp, day, h)})

\* max split shifts per day with one more start allowed
MaxSplitsPerDay_one_more(x) ==
    \A e \in employees : \A d \in days_open :
        day_shifts(e, d) # {} => shift_starts(x, e, d) <= policy.max_splits_per_day + 1

\* 7. max split shifts per day
MaxSplitsPerDay(x) ==
    \A e \in employees : \A d \in days_open :
        day_shifts(e, d) # {} => shift_starts(x, e, d) <= policy.max_splits_per_day

\* has_split exists for a day with at least two start indicators
split_day_vars(emp) ==
    {d \in days_open : emp.roles # {} /\ Cardinality(get_operating_hours) >= 2}

\* max split shifts per week with a split counted from three starts on
MaxSplitShiftsPerWeek_three_starts(x) ==
    \A e \in employees :
        split_day_vars(e) # {} =>
            Cardinality({d \in split_day_vars(e) : shift_starts(x, e, d) >= 3})
                <= policy.max_split_shifts_per_week

\* 8. max split shifts per week
MaxSplitShiftsPerWeek(x) ==
    \A e \in employees :
        split_day_vars(e) # {} =>
            Cardinality({d \in split_day_vars(e) : shift_starts(x, e, d) >= 2})
                <= policy.max_split_shifts_per_week

\* max days per week with the full-time cap and mode taken for everyone
MaxDaysPerWeek_full_time_for_all(x) ==
    \A e \in employees :
        policy.max_days_ft_mode = "required" =>
            Cardinality({d \in days_open : works_day(x, e, d)}) <= policy.max_days_ft

\* 8 (second). max days per week, hard only in mode 'required'
MaxDaysPerWeek(x) ==
    \A e \in employees :
        LET max_days == IF e.is_full_time THEN policy.max_days_ft ELSE policy.max_days_pt
            mode     == IF e.is_full_time THEN policy.max_days_ft_mode ELSE policy.max_days_pt_mode
        IN  mode = "required" =>
                Cardinality({d \in days_open : works_day(x, e, d)}) <= max_days

\* exclusion of the most recent solution only
ExcludePrevious_last_only(x, exclude_solutions) ==
    exclude_solutions # << >> =>
        LET prev_sol    == exclude_solutions[Len(exclude_solutions)]
            differences == DOMAIN prev_sol \cap shift_vars
        IN  differences # {} => \E k \in differences : x[k] # prev_sol[k]

\* exclude previous solutions: at least one shared variable differs
ExcludePrevious(x, exclude_solutions) ==
    \A i \in DOMAIN exclude_solutions :
        LET prev_sol    == exclude_solutions[i]
            differences == DOMAIN prev_sol \cap shift_vars
        IN  differences # {} => \E k \in differences : x[k] # prev_sol[k]

\* the model built by _build_model: all hard constraints together
build_model(x, exclude_solutions) ==
    /\ AvailabilityConstraint(x)
    /\ OneRolePerHour(x)
    /\ MaxHoursPerDay(x)
    /\ CoverageConstraint(x)
    /\ SupervisionConstraint(x)
    /\ WeeklyHoursConstraint(x)
    /\ MinShiftLength(x)
    /\ MaxSplitsPerDay(x)
    /\ MaxSplitShiftsPerWeek(x)
    /\ MaxDaysPerWeek(x)
    /\ ExcludePrevious(x, exclude_solutions)

(***************************************************************************)
(* Objective handed to Maximize (solver.py:203-214, 438-446, 470-516,      *)
(* 541-568)                                                                *)
(***************************************************************************)
\* coverage_met is reified both ways: it is 1 exactly when the minimum is met
coverage_met(x, req) == Ones(x, role_shifts(req)) >= req.min_staff

\* coverage_met * WEIGHT_COVERAGE, for requirements with an eligible employee
coverage_terms(x) ==
    LET counted == {req \in coverage_requirements :
                        in_window(req) /\ role_shifts(req) # {}}
    IN  WEIGHT_COVERAGE * Cardinality({req \in counted : coverage_met(x, req)})

\* shift * WEIGHT_PREFERENCE for every variable of a preferred slot
preference_terms(x) ==
    WEIGHT_PREFERENCE *
        Cardinality({k \in shift_vars : x[k] = 1 /\
                        \E e \in employees : e.id = k[1] /\ prefers(e, k[2], k[3])})

\* mode 'preferred': -over_limit * extra_day * weight for each threshold
\* max_days + extra_day that the days worked reach
max_days_penalty(x, emp) ==
    LET max_days == IF emp.is_full_time THEN policy.max_days_ft ELSE policy.max_days_pt
        mode     == IF emp.is_full_time THEN policy.max_days_ft_mode ELSE policy.max_days_pt_mode
        weight   == IF emp.is_full_time THEN WEIGHT_CONSECUTIVE_FT ELSE WEIGHT_CONSECUTIVE_PT
        total    == Cardinality({d \in days_open : works_day(x, emp, d)})
        extras   == {n \in 1 .. (Cardinality(days_open) - max_days) : total >= max_days + n}
    IN  IF mode = "preferred"
        THEN SumOver(extras, [n \in extras |-> n * weight])
        ELSE 0

\* weekend fairness: -works_day * int(excess * WEIGHT_FAIRNESS) on weekend
\* days, for an employee above the average weekend_shifts_worked
fairness_penalty(x, emp) ==
    LET weekend_days == {d \in days_open : d >= FIRST_WEEKEND_DAY}
        n     == IF Cardinality(employees) >= 1 THEN Cardinality(employees) ELSE 1
        total == SumOver(employees, [e \in employees |-> e.weekend_shifts_worked])
    IN  IF emp.weekend_shifts_worked * n > total
        THEN Cardinality({d \in weekend_days : works_day(x, emp, d)})
                 * (((emp.weekend_shifts_worked * n - total) * WEIGHT_FAIRNESS) \div n)
        ELSE 0

\* overtime: -over_threshold * WEIGHT_OVERTIME for each threshold in
\* 41 .. max_hours that the weekly total reaches
overtime_penalty(x, emp) ==
    LET total == Ones(x, weekly_vars(emp))
    IN  IF weekly_vars(emp) # {} /\ emp.overtime_allowed
        THEN WEIGHT_OVERTIME *
                 Cardinality({t \in (OVERTIME_THRESHOLD + 1) .. emp.max_hours : total >= t})
        ELSE 0

\* the per-hour term of the scheduling strategy
strategy_terms(x) ==
    LET assigned == Cardinality({k \in shift_vars : x[k] = 1})
    IN  CASE policy.scheduling_strategy = "minimize" -> 0 - WEIGHT_MINIMIZE_HOURS * assigned
          [] policy.scheduling_strategy = "maximize" -> WEIGHT_MAXIMIZE_HOURS * assigned
          [] OTHER -> 0

\* sum(objective_terms)
objective(x) ==
    coverage_terms(x) + preference_terms(x) + strategy_terms(x)
    - SumOver(employees, [e \in employees |->
          max_days_penalty(x, e) + fairness_penalty(x, e) + overtime_penalty(x, e)])

\* the objective value of an OPTIMAL status: the largest over the assignments
best_objective(sols) ==
    LET vals == {objective(x) : x \in sols}
    IN  CHOOSE v \in vals : \A w \in vals : w <= v

\* the assignments the CP solver may return for the model
Solutions(exclude_solutions) ==
    {x \in [shift_vars -> {0, 1}] : build_model(x, exclude_solutions)}

(***************************************************************************)
(* Schedule assembly (solver.py:597-764)                                   *)
(***************************************************************************)
\* the inner while loop without its extension: every hour ends its own run
extend_run_single(hours, i, end) == <<i, end>>

\* inner while loop of _extract_shift_assignments: extend the run that
\* starts at index i while the next hour equals end; yields <<i, end>>
RECURSIVE extend_run(_, _, _)
extend_run(hours, i, end) ==
    IF i + 1 <= Len(hours) /\ hours[i + 1] = end
    THEN extend_run(hours, i + 1, end + 1)
    ELSE <<i, end>>

\* outer while loop: one [start_hour, end_hour) per consolidated run
RECURSIVE consolidate(_, _)
consolidate(hours, i) ==
    IF i > Len(hours) THEN {}
    ELSE LET run == extend_run(hours, i, hours[i] + 1)
         IN  {[start_hour |-> hours[i], end_hour |-> run[2]]}
                 \cup consolidate(hours, run[1] + 1)

\* role_hours[role_id] of one employee on one day
role_hours(x, emp, day, role_id) ==
    {h \in get_operating_hours : x[<<emp.id, day, h, role_id>>] = 1}

\* _extract_shift_assignments: the consolidated ShiftAssignments
extract_shift_assignments(x) ==
    UNION { UNION { UNION {
        {[employee_id |-> e.id, day |-> d, role_id |-> r,
          start_hour |-> run.start_hour, end_hour |-> run.end_hour]
            : run \in consolidate(sorted(role_hours(x, e, d, r)), 1)}
        : r \in e.roles} : d \in days_open} : e \in employees}

\* filled: eligible employees whose variable for the requirement is 1
filled(x, req) == Ones(x, role_shifts(req))

\* the requirements _calculate_metrics iterates over
window_requirements == {req \in coverage_requirements : in_window(req)}

\* the coverage metrics with total_slots_filled summing filled itself
calculate_metrics_uncapped(x) ==
    [total_slots_required |->
        SumOver(window_requirements, [req \in window_requirements |-> req.min_staff]),
     total_slots_filled |->
        SumOver(window_requirements, [req \in window_requirements |-> filled(x, req)]),
     unfilled_slots |->
        {[day |-> req.day, hour |-> req.hour, role_id |-> req.role_id,
          needed |-> req.min_staff - filled(x, req),
          filled |-> filled(x, req), required |-> req.min_staff]
            : req \in {q \in window_requirements : filled(x, q) < q.min_staff}}]

\* _calculate_metrics, coverage part
calculate_metrics(x) ==
    [total_slots_required |->
        SumOver(window_requirements, [req \in window_requirements |-> req.min_staff]),
     total_slots_filled |->
        SumOver(window_requirements,
                [req \in window_requirements |-> Min(filled(x, req), req.min_staff)]),
     unfilled_slots |->
        {[day |-> req.day, hour |-> req.hour, role_id |-> req.role_id,
          needed |-> req.min_staff - filled(x, req),
          filled |-> filled(x, req), required |-> req.min_staff]
            : req \in {q \in window_requirements : filled(x, q) < q.min_staff}}]

\* ScheduleMetrics(): the defaults of a fresh metrics record
DefaultMetrics ==
    [total_slots_required |-> 0, total_slots_filled |-> 0, unfilled_slots |-> {}]

\* slot_assignments: (day, hour) -> (employee id, role) pairs, a key only
\* for a slot with at least one assignment
slot_assignments(x) ==
    LET slots == {<<k[2], k[3]>> : k \in {q \in shift_vars : x[q] = 1}}
    IN  [s \in slots |-> {<<k[1], k[4]>> : k \in {q \in shift_vars :
                                  x[q] = 1 /\ q[2] = s[1] /\ q[3] = s[2]}}]

\* the scan without the reset on a day off: counts the days worked
RECURSIVE scan_consecutive_no_reset(_, _, _, _, _)
scan_consecutive_no_reset(x, emp, days, current_consec, max_consec) ==
    IF days = << >> THEN max_consec
    ELSE IF works_day(x, emp, Head(days))
         THEN scan_consecutive_no_reset(x, emp, Tail(days), current_consec + 1,
                                        IF current_consec + 1 > max_consec
                                        THEN current_consec + 1 ELSE max_consec)
         ELSE scan_consecutive_no_reset(x, emp, Tail(days), current_consec, max_consec)

\* longest run of successive worked days, scanning sorted(days_open)
RECURSIVE scan_consecutive(_, _, _, _, _)
scan_consecutive(x, emp, days, current_consec, max_consec) ==
    IF days = << >> THEN max_consec
    ELSE IF works_day(x, emp, Head(days))
         THEN scan_consecutive(x, emp, Tail(days), current_consec + 1,
                               IF current_consec + 1 > max_consec
                               THEN current_consec + 1 ELSE max_consec)
         ELSE scan_consecutive(x, emp, Tail(days), 0, max_consec)

\* Schedule(): the defaults of a fresh Schedule (models.py:400-426)
DefaultSchedule ==
    [is_feasible |-> FALSE, solution_index |-> 0, assignments |-> {},
     slot_assignments |-> << >>, employee_hours |-> << >>,
     employee_overtime |-> << >>, consecutive_days |-> << >>,
     metrics |-> DefaultMetrics, objective_value |-> 0,
     total_hours_needed |-> 0, total_hours_filled |-> 0]

\* the Schedule of the OPTIMAL / FEASIBLE branch with solution_index left at
\* the first solution's value
feasible_schedule_first_index(x, index) ==
    LET ids     == {e.id : e \in employees}
        emp(id) == CHOOSE e \in employees : e.id = id
        hours   == [id \in ids |-> Ones(x, weekly_vars(emp(id)))]
        metrics == calculate_metrics(x)
    IN  [is_feasible |-> TRUE, solution_index |-> 1,
         assignments |-> extract_shift_assignments(x),
         slot_assignments |-> slot_assignments(x),
         employee_hours |-> hours,
         employee_overtime |-> [id \in ids |->
             IF hours[id] > OVERTIME_THRESHOLD THEN hours[id] - OVERTIME_THRESHOLD ELSE 0],
         consecutive_days |-> [id \in ids |->
             scan_consecutive(x, emp(id), sorted(days_open), 0, 0)],
         metrics |-> metrics, objective_value |-> objective(x),
         total_hours_needed |-> metrics.total_slots_required,
         total_hours_filled |-> metrics.total_slots_filled]

\* the Schedule built in the OPTIMAL / FEASIBLE branch of solve
feasible_schedule(x, index) ==
    LET ids     == {e.id : e \in employees}
        emp(id) == CHOOSE e \in employees : e.id = id
        hours   == [id \in ids |-> Ones(x, weekly_vars(emp(id)))]
        metrics == calculate_metrics(x)
    IN  [is_feasible |-> TRUE, solution_index |-> index,
         assignments |-> extract_shift_assignments(x),
         slot_assignments |-> slot_assignments(x),
         employee_hours |-> hours,
         employee_overtime |-> [id \in ids |->
             IF hours[id] > OVERTIME_THRESHOLD THEN hours[id] - OVERTIME_THRESHOLD ELSE 0],
         consecutive_days |-> [id \in ids |->
             scan_consecutive(x, emp(id), sorted(days_open), 0, 0)],
         metrics |-> metrics, objective_value |-> objective(x),
         total_hours_needed |-> metrics.total_slots_required,
         total_hours_filled |-> metrics.total_slots_filled]

(***************************************************************************)
(* Operations of the engine                                                *)
(***************************************************************************)
\* the number of solve() calls the model follows on the engine
SolveLimit ==
    IF Cardinality(shift_vars) <= MaxSeqVars THEN MaxSolves ELSE MaxSolvesLarge

\* storing a solution only when the list does not hold it yet
store_solution_if_new(x) ==
    IF \E i \in DOMAIN previous_solutions : previous_solutions[i] = x
    THEN previous_solutions
    ELSE Append(previous_solutions, x)

\* self._previous_solutions.append(current_solution)
store_solution(x) == Append(previous_solutions, x)

\* AdvancedScheduleSolver.solve(find_alternative)
solve(find_alternative) ==
    /\ calls < SolveLimit
    /\ \E sols \in {Solutions(IF find_alternative THEN previous_solutions ELSE << >>)} :
          IF sols # {}
          THEN \E best \in {best_objective(sols)} : \E x \in sols :
                   /\ status' = IF objective(x) = best THEN "OPTIMAL" ELSE "FEASIBLE"
                   /\ previous_solutions' = store_solution(x)
                   /\ schedule' = feasible_schedule(x, Len(store_solution(x)))
          ELSE /\ status' = "INFEASIBLE"
               /\ previous_solutions' = previous_solutions
               /\ schedule' = DefaultSchedule
    /\ call' = IF find_alternative THEN "alternative" ELSE "solve"
    /\ calls' = calls + 1
    /\ UNCHANGED <<scenario, business, compiled, edits, requests>>

\* a reset that drops the model and its variables and keeps the prior solutions
reset_keeps_solutions ==
    /\ previous_solutions' = previous_solutions
    /\ call' = "reset"
    /\ UNCHANGED <<scenario, business, compiled, edits, requests, schedule, status, calls>>

\* AdvancedScheduleSolver.reset
reset ==
    /\ previous_solutions' = << >>
    /\ call' = "reset"
    /\ UNCHANGED <<scenario, business, compiled, edits, requests, schedule, status, calls>>

(***************************************************************************)
(* Coverage compiler (models.py:517-625)                                   *)
(***************************************************************************)
\* PeakPeriod.includes
includes(period, day, hour) ==
    day \in period.days /\ period.start_hour <= hour /\ hour < period.end_hour

\* BusinessScenario.is_peak_hour
is_peak_hour(day, hour) ==
    \E i \in DOMAIN peak_periods : includes(peak_periods[i], day, hour)

\* the (day, hour, role requirement) visits of the loops over one template,
\* in loop order: days of the template that are open, hours of the template
\* inside the operating hours, role requirements of the template
template_visits(shift) ==
    LET ds == sorted(shift.days \cap days_open)
        hs == sorted({h \in shift.start_hour .. (shift.end_hour - 1) :
                          ~(h < start_hour \/ h >= end_hour)})
        nh == Len(hs)
        nr == Len(shift.roles)
    IN  [i \in 1 .. (Len(ds) * nh * nr) |->
            LET role_req == shift.roles[((i - 1) % nr) + 1]
            IN  [day      |-> ds[((i - 1) \div (nh * nr)) + 1],
                 hour     |-> hs[(((i - 1) \div nr) % nh) + 1],
                 role_id  |-> role_req.role_id,
                 count    |-> role_req.count,
                 max_count |-> IF role_req.max_count > 0
                               THEN role_req.max_count ELSE role_req.count]]

\* the visits of the loop over all templates, in order
RECURSIVE all_visits(_)
all_visits(templates) ==
    IF templates = << >> THEN << >>
    ELSE template_visits(Head(templates)) \o all_visits(Tail(templates))

\* the accumulation with a visit replacing the entry of its key
RECURSIVE accumulate_overwrite(_, _, _)
accumulate_overwrite(visits, req_map, order) ==
    IF visits = << >> THEN <<req_map, order>>
    ELSE LET v   == Head(visits)
             key == <<v.day, v.hour, v.role_id>>
         IN  accumulate_overwrite(Tail(visits),
                 (key :> <<v.count, v.max_count>>) @@ req_map,
                 IF key \in DOMAIN req_map THEN order ELSE Append(order, key))

\* req_map after the visits: key -> (min, max), every visit adding its
\* count and max_count to the entry of its key; order lists the keys as
\* the dict first received them
RECURSIVE accumulate(_, _, _)
accumulate(visits, req_map, order) ==
    IF visits = << >> THEN <<req_map, order>>
    ELSE LET v   == Head(visits)
             key == <<v.day, v.hour, v.role_id>>
             cur == IF key \in DOMAIN req_map THEN req_map[key] ELSE <<0, 0>>
         IN  accumulate(Tail(visits),
                 (key :> <<cur[1] + v.count, cur[2] + v.max_count>>) @@ req_map,
                 IF key \in DOMAIN req_map THEN order ELSE Append(order, key))

\* CoverageRequirement(...) as the compiler constructs it
CoverageRequirement(day, hour, role_id, min_staff, max_staff, is_peak) ==
    [day |-> day, hour |-> hour, role_id |-> role_id,
     min_staff |-> min_staff, max_staff |-> max_staff, is_peak |-> is_peak]

\* BusinessScenario.generate_coverage_from_shifts
generate_coverage_from_shifts(templates) ==
    IF templates = << >> THEN << >>
    ELSE LET acc     == accumulate(all_visits(templates), << >>, << >>)
             req_map == acc[1]
             order   == acc[2]
         IN  [n \in 1 .. Len(order) |->
                 CoverageRequirement(order[n][1], order[n][2], order[n][3],
                                     req_map[order[n]][1], req_map[order[n]][2],
                                     is_peak_hour(order[n][1], order[n][2]))]

\* RoleCoverageConfig.is_required_at
is_required_at(config, day, hour) ==
    /\ IF config.required_days # {}
       THEN day \in config.required_days
       ELSE day \in days_open
    /\ IF config.required_hours # << >>
       THEN \E i \in DOMAIN config.required_hours :
                /\ config.required_hours[i].start_hour <= hour
                /\ hour < config.required_hours[i].end_hour
       ELSE start_hour <= hour /\ hour < end_hour

\* RoleCoverageConfig.get_staff_count: <<min_staff, max_staff>>
get_staff_count(config, is_peak) ==
    IF is_peak /\ config.peak_boost > 0
    THEN <<config.default_min_staff + config.peak_boost,
           config.default_max_staff + config.peak_boost>>
    ELSE <<config.default_min_staff, config.default_max_staff>>

\* BusinessScenario.generate_coverage_from_detailed
generate_coverage_from_detailed(configs) ==
    IF configs = << >> THEN << >>
    ELSE LET ds == sorted(days_open)
             nh == end_hour - start_hour
             nc == Len(configs)
             visits == [i \in 1 .. (Len(ds) * (IF nh > 0 THEN nh ELSE 0) * nc) |->
                           [day    |-> ds[((i - 1) \div (nh * nc)) + 1],
                            hour   |-> start_hour + (((i - 1) \div nc) % nh),
                            config |-> configs[((i - 1) % nc) + 1]]]
             kept == SelectSeq(visits,
                         LAMBDA v : is_required_at(v.config, v.day, v.hour))
         IN  [n \in 1 .. Len(kept) |->
                 LET v     == kept[n]
                     staff == get_staff_count(v.config, is_peak_hour(v.day, v.hour))
                 IN  CoverageRequirement(v.day, v.hour, v.config.role_id,
                                         staff[1], staff[2],
                                         is_peak_hour(v.day, v.hour))]

\* BusinessScenario.generate_coverage_requirements: the list it returns for
\* a business with the given mode, templates and configs (CoverageMode has
\* the two members SHIFTS and DETAILED)
generate_coverage_requirements(mode, templates, configs) ==
    IF mode = "shifts"
    THEN generate_coverage_from_shifts(templates)
    ELSE generate_coverage_from_detailed(configs)

\* generate_coverage_requirements() on the business as it is
current_coverage ==
    generate_coverage_requirements(coverage_mode, shift_templates, role_coverage_configs)

\* a requirement list as the engine reads it once it is stored in
\* business.coverage_requirements: day, hour, role_id, min_staff, max_staff
stored(requirements) ==
    {[day |-> requirements[n].day, hour |-> requirements[n].hour,
      role_id |-> requirements[n].role_id,
      min_staff |-> requirements[n].min_staff,
      max_staff |-> requirements[n].max_staff] : n \in DOMAIN requirements}

(***************************************************************************)
(* Operations on the business and engine construction                      *)
(***************************************************************************)
\* the engine's fields and the last result, untouched by an edit of the business
engine == <<employees, start_hour, end_hour, days_open, coverage_requirements, policy,
            previous_solutions, schedule, status, calls>>

\* a call of generate_coverage_requirements() that also stores its result
call_generate_and_store ==
    /\ compiled' = current_coverage
    /\ business_coverage' = stored(current_coverage)
    /\ call' = "generate"
    /\ UNCHANGED <<engine, edits, requests, shift_templates, role_coverage_configs, peak_periods,
                   coverage_mode>>

\* a call of BusinessScenario.generate_coverage_requirements()
call_generate_coverage_requirements ==
    /\ compiled' = current_coverage
    /\ call' = "generate"
    /\ UNCHANGED <<engine, edits, requests, business>>

\* business.coverage_requirements = business.generate_coverage_requirements()
\* on a business with the given mode, templates and configs
regenerate(mode, templates, configs) ==
    \E requirements \in {generate_coverage_requirements(mode, templates, configs)} :
        /\ compiled' = requirements
        /\ business_coverage' = stored(requirements)

\* BusinessScenario.rebuild_coverage_requirements
rebuild_coverage_requirements ==
    /\ IF role_coverage_configs # << >>
       THEN regenerate(coverage_mode, shift_templates, role_coverage_configs)
       ELSE UNCHANGED <<business_coverage, compiled>>
    /\ call' = "rebuild"
    /\ UNCHANGED <<engine, edits, requests, shift_templates, role_coverage_configs,
                   peak_periods, coverage_mode>>

\* POST /api/settings/shifts: append a template; regenerate in shifts mode
add_shift_template(shift) ==
    /\ edits < MaxEdits
    /\ Len(shift_templates) < MaxTemplates
    /\ shift_templates' = Append(shift_templates, shift)
    /\ IF coverage_mode = "shifts"
       THEN regenerate(coverage_mode, Append(shift_templates, shift),
                       role_coverage_configs)
       ELSE UNCHANGED <<business_coverage, compiled>>
    /\ call' = "add_shift"
    /\ edits' = edits + 1
    /\ UNCHANGED <<engine, requests, role_coverage_configs, peak_periods, coverage_mode>>

\* DELETE /api/settings/shifts/<id>: remove a template; regenerate in shifts mode
delete_shift_template(i) ==
    /\ edits < MaxEdits
    /\ i \in DOMAIN shift_templates
    /\ LET remaining == SubSeq(shift_templates, 1, i - 1)
                            \o SubSeq(shift_templates, i + 1, Len(shift_templates))
       IN  /\ shift_templates' = remaining
           /\ IF coverage_mode = "shifts"
              THEN regenerate(coverage_mode, remaining, role_coverage_configs)
              ELSE UNCHANGED <<business_coverage, compiled>>
    /\ call' = "delete_shift"
    /\ edits' = edits + 1
    /\ UNCHANGED <<engine, requests, role_coverage_configs, peak_periods, coverage_mode>>

\* PUT /api/settings/role-coverage: replace the configs, then rebuild
update_role_coverage(configs) ==
    /\ edits < MaxEdits
    /\ role_coverage_configs' = configs
    /\ IF configs # << >>
       THEN regenerate(coverage_mode, shift_templates, configs)
       ELSE UNCHANGED <<business_coverage, compiled>>
    /\ call' = "update_configs"
    /\ edits' = edits + 1
    /\ UNCHANGED <<engine, requests, shift_templates, peak_periods, coverage_mode>>

\* PUT /api/settings/coverage-mode: switch the mode and regenerate
set_coverage_mode(mode) ==
    /\ edits < MaxEdits
    /\ coverage_mode' = mode
    /\ regenerate(mode, shift_templates, role_coverage_configs)
    /\ call' = "set_mode"
    /\ edits' = edits + 1
    /\ UNCHANGED <<engine, requests, shift_templates, role_coverage_configs, peak_periods>>

\* AdvancedScheduleSolver.__init__ on the business as it is now
construct ==
    /\ coverage_requirements' = business_coverage
    /\ previous_solutions' = << >>
    /\ call' = "construct"
    /\ UNCHANGED <<employees, start_hour, end_hour, days_open, policy, schedule,
                   status, calls, business, compiled, edits, requests>>

(***************************************************************************)
(* Scenarios the engine is constructed with                                *)
(***************************************************************************)
Roles == {"r1", "r2"}

\* every slot of the modelled days, one hour past the latest closing included
AllSlots == {<<d, h>> : d \in {0, 1, 3, 6}, h \in 9 .. (MaxEndHour + 1)}

BaseEmployee(id) ==
    [id |-> id, roles |-> {"r1"}, availability |-> AllSlots, time_off |-> {},
     preferences |-> {<<0, 9>>}, weekend_shifts_worked |-> 0,
     min_hours |-> 0, max_hours |-> 6, overtime_allowed |-> FALSE,
     needs_supervision |-> FALSE, can_supervise |-> FALSE, is_full_time |-> FALSE]

\* employee profiles: the base employee changed in one respect
Profiles(id) ==
    LET b == BaseEmployee(id)
    IN  { b,
          [b EXCEPT !.roles = {"r1", "r2"}],
          [b EXCEPT !.roles = {}, !.min_hours = 15, !.max_hours = 25],
          [b EXCEPT !.availability = {<<0, 9>>, <<0, 10>>, <<0, 11>>, <<1, 9>>, <<1, 10>>,
                                      <<6, 9>>},
                    !.time_off = {<<0, 10>>}, !.preferences = {<<0, 10>>}],
          [b EXCEPT !.min_hours = 2, !.max_hours = 3, !.preferences = {<<0, 11>>}],
          [b EXCEPT !.min_hours = 15, !.max_hours = 25],
          [b EXCEPT !.needs_supervision = TRUE],
          [b EXCEPT !.can_supervise = TRUE, !.is_full_time = TRUE,
                    !.max_hours = 45, !.overtime_allowed = TRUE] }

\* profiles of the second employee
Colleagues(id) ==
    LET b == BaseEmployee(id)
    IN  { b,
          [b EXCEPT !.needs_supervision = TRUE],
          [b EXCEPT !.can_supervise = TRUE, !.is_full_time = TRUE] }

Req(d, h, r, lo, hi) ==
    [day |-> d, hour |-> h, role_id |-> r, min_staff |-> lo, max_staff |-> hi]

CoverageChoices ==
    { {},
      {Req(0, 9, "r1", 1, 1)},
      {Req(0, 9, "r1", 2, 2), Req(0, 10, "r1", 1, DEFAULT_MAX_STAFF)},
      {Req(0, 10, "r2", 1, 1), Req(1, 9, "r1", 1, 1), Req(0, MaxEndHour, "r1", 1, 1)} }

Pol(st, ms, hd, sd, sw, dft, mft, dpt, mpt) ==
    [scheduling_strategy |-> st, min_shift_hours |-> ms, max_hours_per_day |-> hd, max_splits_per_day |-> sd,
     max_split_shifts_per_week |-> sw, max_days_ft |-> dft, max_days_ft_mode |-> mft,
     max_days_pt |-> dpt, max_days_pt_mode |-> mpt]

PolicyChoices ==
    { Pol("balanced", 2, 8, 2, 2, 5, "required", 3, "required"),
      Pol("maximize", 1, 8, 2, 2, 5, "required", 3, "required"),
      Pol("minimize", 1, 2, 1, 0, 1, "preferred", 1, "required"),
      Pol("balanced", 3, 8, 2, 1, 1, "required", 1, "off") }

Init ==
    /\ start_hour = 9
    /\ end_hour \in 10 .. MaxEndHour
    /\ days_open \in {{0}, {0, 1}, {0, 3, 6}}
    /\ \E A \in SUBSET Profiles("A"), B \in SUBSET Colleagues("B") :
          /\ Cardinality(A) <= 1
          /\ Cardinality(B) <= 1
          /\ employees = A \cup B
    /\ Cardinality(shift_vars) <= MaxVars
    /\ coverage_requirements \in CoverageChoices
    /\ policy \in PolicyChoices
    /\ previous_solutions = << >>
    /\ schedule = DefaultSchedule
    /\ status = "NONE"
    /\ call = "init"
    /\ calls = 0
    /\ shift_templates = << >>
    /\ role_coverage_configs = << >>
    /\ peak_periods = << >>
    /\ coverage_mode = "shifts"
    /\ business_coverage = coverage_requirements
    /\ compiled = << >>
    /\ edits = 0
    /\ pto_requests = {}
    /\ week = 0
    /\ last_week = 0

Next ==
    \/ \E find_alternative \in BOOLEAN : solve(find_alternative)
    \/ reset

Spec == Init /\ [][Next]_vars

(***************************************************************************)
(* Scenarios that exercise the split-shift policies                        *)
(***************************************************************************)
\* policies with one hour as the shortest shift: one segment a day, no day
\* with a split, and at most one day with a split
SplitPolicyChoices ==
    { Pol("maximize", 1, 8, 1, 2, 5, "required", 3, "required"),
      Pol("maximize", 1, 8, 2, 0, 5, "required", 3, "required"),
      Pol("minimize", 1, 8, 2, 1, 5, "required", 3, "required") }

\* open days and the one employee of a scenario open 9-12
SplitShapes ==
    { <<{0}, BaseEmployee("A")>>,
      <<{0, 1}, BaseEmployee("A")>>,
      <<{0}, [BaseEmployee("A") EXCEPT !.roles = {"r1", "r2"}]>> }

\* an engine constructed on a business open 9-12
InitPolicies ==
    /\ start_hour = 9
    /\ end_hour = 12
    /\ \E shape \in SplitShapes :
          days_open = shape[1] /\ employees = {shape[2]}
    /\ coverage_requirements \in {{}, {Req(0, 10, "r1", 1, 1)},
                                  {Req(0, 9, "r1", 1, 1), Req(0, 11, "r1", 1, 1)}}
    /\ policy \in SplitPolicyChoices
    /\ previous_solutions = << >>
    /\ schedule = DefaultSchedule
    /\ status = "NONE"
    /\ call = "init"
    /\ calls = 0
    /\ shift_templates = << >>
    /\ role_coverage_configs = << >>
    /\ peak_periods = << >>
    /\ coverage_mode = "shifts"
    /\ business_coverage = coverage_requirements
    /\ compiled = << >>
    /\ edits = 0
    /\ pto_requests = {}
    /\ week = 0
    /\ last_week = 0

SpecPolicies == InitPolicies /\ [][Next]_vars

(***************************************************************************)
(* Scenarios small enough to be solved until the alternatives run out      *)
(***************************************************************************)
\* an engine constructed on a scenario with at least one shift variable and
\* few enough to follow MaxSolves calls
InitAlternatives ==
    /\ Init
    /\ shift_vars # {}
    /\ Cardinality(shift_vars) <= MaxSeqVars

SpecAlternatives == InitAlternatives /\ [][Next]_vars

(***************************************************************************)
(* Businesses whose coverage configuration is edited                       *)
(***************************************************************************)
RoleReq(r, count, max_count) == [role_id |-> r, count |-> count, max_count |-> max_count]

Template(s, e, days, roles) ==
    [start_hour |-> s, end_hour |-> e, days |-> days, roles |-> roles]

\* a template for Monday mornings
MorningTemplate == Template(9, 13, {0}, <<RoleReq("r1", 1, 0)>>)

\* the templates a business is given: two that overlap on Monday, one that
\* starts before opening with several role requirements, one without days
\* and one without roles
TemplatePool ==
    { MorningTemplate,
      Template(12, 15, {0}, <<RoleReq("r1", 1, 0)>>),
      Template(8, 11, {0, 1}, <<RoleReq("r1", 1, 2), RoleReq("r2", 2, 0),
                                RoleReq("r1", 2, 0)>>),
      Template(9, 11, {}, <<RoleReq("r1", 1, 0)>>),
      Template(9, 11, {0, 1}, << >>) }

Config(r, lo, hi, boost, hours, days) ==
    [role_id |-> r, default_min_staff |-> lo, default_max_staff |-> hi,
     peak_boost |-> boost, required_hours |-> hours, required_days |-> days]

ConfigChoices ==
    { << >>,
      <<Config("r1", 1, 3, 1, << >>, {})>>,
      <<Config("r1", 1, 2, 0, <<[start_hour |-> 9, end_hour |-> 10]>>, {0}),
        Config("r2", 2, 2, 1, << >>, {})>> }

\* opening hours, open days and employees of the modelled businesses
BusinessShapes ==
    { <<15, {0}, {}>>, <<15, {0, 1}, {}>>, <<11, {0, 1}, {}>>,
      <<10, {0}, {BaseEmployee("A")}>> }

\* configs, peak periods and coverage mode of the modelled businesses
BusinessCoverageSetups ==
    { << << >>, << >>, "shifts" >>,
      << <<Config("r1", 1, 3, 1, << >>, {})>>, << >>, "shifts" >>,
      << <<Config("r1", 1, 3, 1, << >>, {})>>,
         <<[start_hour |-> 10, end_hour |-> 12, days |-> {0}]>>, "detailed" >>,
      << <<Config("r1", 1, 2, 0, <<[start_hour |-> 9, end_hour |-> 10]>>, {0}),
           Config("r2", 2, 2, 1, << >>, {})>>,
         <<[start_hour |-> 10, end_hour |-> 12, days |-> {0}]>>, "detailed" >> }

\* the business as loaded (coverage generated from its configuration) and
\* an engine constructed on it
InitBusiness ==
    /\ start_hour = 9
    /\ \E shape \in BusinessShapes :
          end_hour = shape[1] /\ days_open = shape[2] /\ employees = shape[3]
    /\ policy = Pol("maximize", 1, 8, 2, 2, 5, "required", 3, "required")
    /\ shift_templates \in {<< >>, <<MorningTemplate>>}
    /\ \E setup \in BusinessCoverageSetups :
          /\ role_coverage_configs = setup[1]
          /\ peak_periods = setup[2]
          /\ coverage_mode = setup[3]
    /\ business_coverage = stored(current_coverage)
    /\ coverage_requirements = business_coverage
    /\ compiled = current_coverage
    /\ edits = 0
    /\ pto_requests = {}
    /\ week = 0
    /\ last_week = 0
    /\ previous_solutions = << >>
    /\ schedule = DefaultSchedule
    /\ status = "NONE"
    /\ call = "init"
    /\ calls = 0

NextBusiness ==
    \/ call_generate_coverage_requirements
    \/ rebuild_coverage_requirements
    \/ \E shift \in TemplatePool : add_shift_template(shift)
    \/ \E i \in 1 .. MaxTemplates : delete_shift_template(i)
    \/ \E configs \in ConfigChoices : update_role_coverage(configs)
    \/ \E mode \in {"shifts", "detailed"} : set_coverage_mode(mode)
    \/ construct
    \/ \E find_alternative \in BOOLEAN : solve(find_alternative)

SpecBusiness == InitBusiness /\ [][NextBusiness]_vars

(***************************************************************************)
(* Schedule requests of the web application (src/app.py:2901-3151)         *)
(*                                                                         *)
(* Dates are day numbers counted from the Monday of the current week, so   *)
(* date.weekday() is the number modulo 7.  A handler is followed in two    *)
(* positions: after _apply_approved_time_off, and at its response.         *)
(***************************************************************************)
\* most schedule requests the model follows
MaxRequests == 2

\* get_week_start(offset): the Monday of the week at that offset
get_week_start(offset) == 7 * offset

\* date.weekday()
weekday(a_date) == a_date % 7

\* the larger of two dates
Max(a, b) == IF a >= b THEN a ELSE b

\* the query with the filter on the status left out
approved_requests_any_status(week_start, week_end) ==
    {req \in pto_requests : req.start_date <= week_end /\ req.end_date >= week_start}

\* PTORequest.query.filter(...): approved requests that overlap the week
approved_requests(week_start, week_end) ==
    {req \in pto_requests :
        /\ req.status = "approved"
        /\ req.start_date <= week_end
        /\ req.end_date >= week_start}

\* employee_time_off[emp_id]: weekdays of the dates of the week that the
\* employee's approved requests cover
employee_time_off(emp_id, week_start, week_end) ==
    {weekday(current_date) :
        current_date \in UNION {Max(req.start_date, week_start) .. Min(req.end_date, week_end) :
            req \in {q \in approved_requests(week_start, week_end) : q.employee_id = emp_id}}}

\* Employee.add_time_off(day): every hour 0..23 of the day
add_time_off(time_off, day) == time_off \cup {<<day, hour>> : hour \in 0 .. 23}

\* _apply_approved_time_off: business.employees afterwards
apply_approved_time_off(week_start, week_end) ==
    {[emp EXCEPT !.time_off =
          UNION ({@} \cup {add_time_off(@, day) :
                              day \in employee_time_off(emp.id, week_start, week_end)})]
        : emp \in employees}

\* a handler has applied the time off and not yet responded
InHandler == call \in {"generate_schedule:time_off", "find_alternative:time_off"}

\* first part of a schedule handler: read weekOffset, apply the time off
handler_time_off(handler, week_offset) ==
    /\ ~InHandler
    /\ calls < MaxRequests
    /\ employees' = apply_approved_time_off(get_week_start(week_offset),
                                            get_week_start(week_offset) + 6)
    /\ week' = week_offset
    /\ last_week' = week
    /\ call' = handler
    /\ UNCHANGED <<start_hour, end_hour, days_open, coverage_requirements, policy,
                   previous_solutions, schedule, status, calls, business, compiled,
                   edits, pto_requests>>

\* second part of a schedule handler: a new AdvancedScheduleSolver on the
\* business (an empty _previous_solutions), one solve, the response
handler_solve(handler, find_alternative) ==
    /\ coverage_requirements' = business_coverage
    /\ \E fresh \in {<< >>} :
        \E sols \in {Solutions(IF find_alternative THEN fresh ELSE << >>)} :
          IF sols # {}
          THEN \E best \in {best_objective(sols)} : \E x \in sols :
                   /\ status' = IF objective(x) = best THEN "OPTIMAL" ELSE "FEASIBLE"
                   /\ previous_solutions' = Append(fresh, x)
                   /\ schedule' = feasible_schedule(x, Len(fresh) + 1)
          ELSE /\ status' = "INFEASIBLE"
               /\ previous_solutions' = fresh
               /\ schedule' = DefaultSchedule
    /\ call' = handler
    /\ calls' = calls + 1
    /\ UNCHANGED <<employees, start_hour, end_hour, days_open, policy, business,
                   compiled, edits, requests>>

\* POST /api/generate
generate_schedule_time_off(week_offset) ==
    handler_time_off("generate_schedule:time_off", week_offset)

generate_schedule_solve ==
    /\ call = "generate_schedule:time_off"
    /\ handler_solve("generate_schedule", FALSE)

\* POST /api/alternative
find_alternative_time_off(week_offset) ==
    handler_time_off("find_alternative:time_off", week_offset)

find_alternative_solve ==
    /\ call = "find_alternative:time_off"
    /\ handler_solve("find_alternative", TRUE)

Request(emp_id, req_status, start_date, end_date) ==
    [employee_id |-> emp_id, status |-> req_status,
     start_date |-> start_date, end_date |-> end_date]

\* the request tables of the modelled businesses: a Monday approved and a
\* Tuesday pending in the current week; three approved days from this
\* Sunday to next Tuesday; requests of another employee, a denied request
\* and an approved Tuesday in the next week
PTOChoices ==
    { {},
      {Request("A", "approved", 0, 0), Request("A", "pending", 1, 1)},
      {Request("A", "approved", 6, 8)},
      {Request("B", "approved", 0, 7), Request("A", "denied", 7, 7),
       Request("A", "approved", 8, 8)} }

\* the week offsets asked for
WeekOffsets == {0, 1}

\* a cached business open 9-10 with one employee and no time off yet
InitRequests ==
    /\ start_hour = 9
    /\ end_hour = 10
    /\ days_open \in {{0, 1}, {0, 1, 6}}
    /\ employees = {BaseEmployee("A")}
    /\ coverage_requirements = {}
    /\ policy = Pol("maximize", 1, 8, 2, 2, 5, "required", 3, "required")
    /\ previous_solutions = << >>
    /\ schedule = DefaultSchedule
    /\ status = "NONE"
    /\ call = "init"
    /\ calls = 0
    /\ shift_templates = << >>
    /\ role_coverage_configs = << >>
    /\ peak_periods = << >>
    /\ coverage_mode = "shifts"
    /\ business_coverage = coverage_requirements
    /\ compiled = << >>
    /\ edits = 0
    /\ pto_requests \in PTOChoices
    /\ week = 0
    /\ last_week = 0

NextRequests ==
    \/ \E week_offset \in WeekOffsets : generate_schedule_time_off(week_offset)
    \/ generate_schedule_solve
    \/ \E week_offset \in WeekOffsets : find_alternative_time_off(week_offset)
    \/ find_alternative_solve

SpecRequests == InitRequests /\ [][NextRequests]_vars

(***************************************************************************)
(* Persistence of a business (db_service.py)                               *)
(***************************************************************************)
\* DBBusiness.set_days_open_list / DBShiftTemplate.set_days_list: the
\* comma-separated tokens of the text column, one per day
set_days_list(days) == sorted(days)

\* DBBusiness.get_days_open_list / DBShiftTemplate.get_days_list: an empty
\* column gives no days, otherwise every token read as a day
get_days_list(column) ==
    IF column = << >> THEN {} ELSE {column[i] : i \in DOMAIN column}

\* DBEmployee.set_roles_list: the comma-separated role ids
set_roles_list(roles) == roles

\* DBEmployee.get_roles_list: the tokens that are not empty
get_roles_list(column) == {r \in column : r # ""}

\* the EmployeeClassification value written to DBEmployee.classification
classification_value(emp) == IF emp.is_full_time THEN "full_time" ELSE "part_time"

\* the list of {'day', 'hour'} dicts written for a set of TimeSlots
slot_dicts(slots) == {[day |-> s[1], hour |-> s[2]] : s \in slots}

\* _save_single_employee_to_db: the DBEmployee row of an employee
save_single_employee_to_db(emp) ==
    [employee_id |-> emp.id,
     classification |-> classification_value(emp),
     min_hours |-> emp.min_hours, max_hours |-> emp.max_hours,
     roles |-> set_roles_list(emp.roles),
     needs_supervision |-> emp.needs_supervision,
     can_supervise |-> emp.can_supervise,
     overtime_allowed |-> emp.overtime_allowed,
     weekend_shifts_worked |-> emp.weekend_shifts_worked,
     availability_json |-> [availability |-> slot_dicts(emp.availability),
                            preferences  |-> slot_dicts(emp.preferences),
                            time_off     |-> slot_dicts(emp.time_off)]]

\* _db_employee_to_model
db_employee_to_model(db_emp) ==
    [id |-> db_emp.employee_id,
     roles |-> get_roles_list(db_emp.roles),
     availability |-> {<<s.day, s.hour>> : s \in db_emp.availability_json.availability},
     time_off |-> {<<s.day, s.hour>> : s \in db_emp.availability_json.time_off},
     preferences |-> {<<s.day, s.hour>> : s \in db_emp.availability_json.preferences},
     weekend_shifts_worked |-> db_emp.weekend_shifts_worked,
     min_hours |-> db_emp.min_hours, max_hours |-> db_emp.max_hours,
     overtime_allowed |-> db_emp.overtime_allowed,
     needs_supervision |-> db_emp.needs_supervision,
     can_supervise |-> db_emp.can_supervise,
     is_full_time |-> (db_emp.classification = "full_time")]

\* _save_shift_templates_to_db: the DBShiftTemplate row of one template
save_shift_template_to_db(shift) ==
    [start_hour |-> shift.start_hour, end_hour |-> shift.end_hour,
     days |-> set_days_list(shift.days),
     roles_json |-> [j \in DOMAIN shift.roles |->
                        [role_id |-> shift.roles[j].role_id,
                         count |-> shift.roles[j].count,
                         max_count |-> shift.roles[j].max_count]]]

\* _db_shift_template_to_model
db_shift_template_to_model(db_shift) ==
    [start_hour |-> db_shift.start_hour, end_hour |-> db_shift.end_hour,
     days |-> get_days_list(db_shift.days),
     roles |-> [j \in DOMAIN db_shift.roles_json |->
                   [role_id |-> db_shift.roles_json[j].role_id,
                    count |-> db_shift.roles_json[j].count,
                    max_count |-> db_shift.roles_json[j].max_count]]]

\* save_business_to_db: the rows written for the business as it is now.
\* The DBBusiness row has the columns start_hour, end_hour, coverage_mode
\* and days_open; employees and shift templates have rows of their own.
save_business_to_db ==
    [start_hour |-> start_hour, end_hour |-> end_hour,
     coverage_mode |-> coverage_mode,
     days_open |-> set_days_list(days_open),
     employees |-> {save_single_employee_to_db(emp) : emp \in employees},
     shift_templates |-> [i \in DOMAIN shift_templates |->
                             save_shift_template_to_db(shift_templates[i])]]

\* a generated list on a scenario without peak periods: is_peak_hour is
\* False at every slot
without_peak(requirements) ==
    [n \in DOMAIN requirements |-> [requirements[n] EXCEPT !.is_peak = FALSE]]

\* load_business_from_db: the BusinessScenario constructed from the rows.
\* peak_periods and role_coverage_configs are not passed to the constructor
\* and take their default, the empty list; coverage_requirements is
\* generated on the scenario so constructed.
load_business_from_db(db_business) ==
    LET templates == [i \in DOMAIN db_business.shift_templates |->
                         db_shift_template_to_model(db_business.shift_templates[i])]
        mode == IF db_business.coverage_mode \in {"shifts", "detailed"}
                THEN db_business.coverage_mode ELSE "shifts"
    IN  [start_hour |-> db_business.start_hour,
         end_hour |-> db_business.end_hour,
         days_open |-> get_days_list(db_business.days_open),
         employees |-> {db_employee_to_model(e) : e \in db_business.employees},
         shift_templates |-> templates,
         coverage_mode |-> mode,
         peak_periods |-> << >>,
         role_coverage_configs |-> << >>,
         coverage_requirements |->
             without_peak(generate_coverage_requirements(mode, templates, << >>))]

\* the business is saved and the scenario in use is replaced by the one
\* read back (get_business_by_id on a business that is not cached)
save_and_load ==
    /\ call # "load"
    /\ \E loaded \in {load_business_from_db(save_business_to_db)} :
          /\ start_hour' = loaded.start_hour
          /\ end_hour' = loaded.end_hour
          /\ days_open' = loaded.days_open
          /\ employees' = loaded.employees
          /\ shift_templates' = loaded.shift_templates
          /\ coverage_mode' = loaded.coverage_mode
          /\ peak_periods' = loaded.peak_periods
          /\ role_coverage_configs' = loaded.role_coverage_configs
          /\ compiled' = loaded.coverage_requirements
          /\ business_coverage' = stored(loaded.coverage_requirements)
    /\ call' = "load"
    /\ UNCHANGED <<coverage_requirements, policy, previous_solutions, schedule,
                   status, calls, edits, requests>>

\* the employees of the stored businesses: none, one, and two of whom one
\* is full-time with an hour of time off
StoredEmployees ==
    { {}, {BaseEmployee("A")},
      {[BaseEmployee("A") EXCEPT !.is_full_time = TRUE, !.time_off = {<<0, 10>>},
                                 !.roles = {"r1", "r2"}],
       BaseEmployee("B")} }

\* businesses as the settings pages leave them, about to be saved
InitStorage ==
    /\ start_hour = 9
    /\ end_hour \in {11, 15}
    /\ days_open \in {{0}, {0, 1}}
    /\ employees \in StoredEmployees
    /\ policy = Pol("maximize", 1, 8, 2, 2, 5, "required", 3, "required")
    /\ shift_templates \in {<< >>, <<MorningTemplate>>}
    /\ \E setup \in BusinessCoverageSetups :
          /\ role_coverage_configs = setup[1]
          /\ peak_periods = setup[2]
          /\ coverage_mode = setup[3]
    /\ business_coverage = stored(current_coverage)
    /\ coverage_requirements = business_coverage
    /\ compiled = current_coverage
    /\ edits = 0
    /\ pto_requests = {}
    /\ week = 0
    /\ last_week = 0
    /\ previous_solutions = << >>
    /\ schedule = DefaultSchedule
    /\ status = "NONE"
    /\ call = "init"
    /\ calls = 0

NextStorage ==
    \/ \E shift \in TemplatePool : add_shift_template(shift)
    \/ \E configs \in ConfigChoices : update_role_coverage(configs)
    \/ \E mode \in {"shifts", "detailed"} : set_coverage_mode(mode)
    \/ save_and_load

SpecStorage == InitStorage /\ [][NextStorage]_vars

(***************************************************************************)
(* Reading the returned Schedule                                           *)
(***************************************************************************)
\* a solve() call has just returned
Returned == call \in {"solve", "alternative"}

\* the employee record of an id
EmployeeOf(id) == CHOOSE e \in employees : e.id = id

\* the (employee, role) pairs the schedule lists for a slot
SlotPairs(d, h) ==
    IF <<d, h>> \in DOMAIN schedule.slot_assignments
    THEN schedule.slot_assignments[<<d, h>>]
    ELSE {}

\* number of employees the schedule assigns to role r at (d, h)
Staffed(d, h, r) == Cardinality({p \in SlotPairs(d, h) : p[2] = r})

\* the schedule has the employee working at (d, h), in any role
Worked(id, d, h) == \E p \in SlotPairs(d, h) : p[1] = id

\* hours the schedule has the employee working on day d, over all roles
HoursThatDay(id, d) ==
    Cardinality(UNION {{<<h, p[2]>> : p \in {q \in SlotPairs(d, h) : q[1] = id}}
                       : h \in get_operating_hours})

(***************************************************************************)
(* Claims                                                                  *)
(***************************************************************************)
\* C1: in every feasible schedule each coverage requirement inside the
\* schedule window has at least min_staff employees assigned to its role
\* at its (day, hour).
C1_CoverageMinimumMet ==
    schedule.is_feasible =>
        \A req \in coverage_requirements :
            in_window(req) => Staffed(req.day, req.hour, req.role_id) >= req.min_staff

\* C2: every ShiftAssignment of a feasible schedule lies on an open day and
\* within operating hours, has a role of its employee, and covers only hours
\* that are in the employee's availability and not in the employee's time_off.
C2_AssignmentsRespectAvailability ==
    schedule.is_feasible =>
        \A a \in schedule.assignments :
            /\ a.day \in days_open
            /\ a.role_id \in EmployeeOf(a.employee_id).roles
            /\ a.start_hour < a.end_hour
            /\ \A h \in a.start_hour .. (a.end_hour - 1) :
                  /\ h \in get_operating_hours
                  /\ <<a.day, h>> \in EmployeeOf(a.employee_id).availability
                  /\ <<a.day, h>> \notin EmployeeOf(a.employee_id).time_off

\* C2 witness: a feasible schedule of an optimal solve assigns hours to an employee whose time_off
\* overlaps the availability inside the window.
C2_Witness ==
    /\ schedule.is_feasible
    /\ status = "OPTIMAL"
    /\ \E a \in schedule.assignments :
          \E h \in get_operating_hours :
              /\ <<a.day, h>> \in EmployeeOf(a.employee_id).availability
              /\ <<a.day, h>> \in EmployeeOf(a.employee_id).time_off

\* C3: in every feasible schedule, at every (day, hour) at which an employee
\* with needs_supervision works, some employee with can_supervise works too,
\* also when the scenario has no can_supervise employee.
C3_SupervisorPresent ==
    schedule.is_feasible =>
        \A e \in get_employees_needing_supervision :
            \A d \in days_open : \A h \in get_operating_hours :
                Worked(e.id, d, h) => \E s \in get_supervisors : Worked(s.id, d, h)

\* C4: in every feasible schedule every employee of the scenario has
\* min_hours <= employee_hours <= effective_max.
C4_WeeklyHoursWithinBounds ==
    schedule.is_feasible =>
        \A e \in employees :
            /\ e.min_hours <= schedule.employee_hours[e.id]
            /\ schedule.employee_hours[e.id] <= effective_max(e)

\* two raw assignments differ in at least one variable
Differ(p, q) == \E k \in DOMAIN p \cap DOMAIN q : p[k] # q[k]

\* C5: the raw assignment of a feasible schedule returned by
\* solve(find_alternative=true) differs in at least one variable from every
\* raw assignment the engine returned earlier.
C5_AlternativeDiffers ==
    (call = "alternative" /\ schedule.is_feasible) =>
        \A i \in 1 .. (Len(previous_solutions) - 1) :
            Differ(previous_solutions[i], previous_solutions[Len(previous_solutions)])

\* C6: when no solution is found, solve returns is_feasible = false, empty
\* assignments, and unfilled_slots with one entry per in-window requirement,
\* each entirely unfilled (filled = 0, needed = min_staff).
C6_InfeasibleReportsUnfilled ==
    (Returned /\ ~schedule.is_feasible) =>
        /\ schedule.assignments = {}
        /\ schedule.metrics.unfilled_slots =
              {[day |-> req.day, hour |-> req.hour, role_id |-> req.role_id,
                needed |-> req.min_staff, filled |-> 0, required |-> req.min_staff]
                  : req \in window_requirements}

\* C7: in every feasible schedule an employee appears at most once in the
\* slot_assignments of a (day, hour), and no two ShiftAssignments of one
\* employee on one day share an hour, whatever their roles.
C7_OneRolePerHour ==
    schedule.is_feasible =>
        /\ \A s \in DOMAIN schedule.slot_assignments :
              \A p, q \in schedule.slot_assignments[s] : p[1] = q[1] => p = q
        /\ \A a, b \in schedule.assignments :
              (a # b /\ a.employee_id = b.employee_id /\ a.day = b.day) =>
                  (a.end_hour <= b.start_hour \/ b.end_hour <= a.start_hour)

\* C7 witness: a feasible schedule of an optimal solve has one employee working two different
\* roles on the same day.
C7_Witness ==
    /\ schedule.is_feasible
    /\ status = "OPTIMAL"
    /\ \E a, b \in schedule.assignments :
          a.employee_id = b.employee_id /\ a.day = b.day /\ a.role_id # b.role_id

\* the schedule has the employee working every hour of lo..hi on day d, and
\* the stretch cannot be extended inside the operating hours
MaximalRun(id, d, lo, hi) ==
    /\ lo <= hi
    /\ \A h \in lo .. hi : Worked(id, d, h)
    /\ (lo = start_hour \/ ~Worked(id, d, lo - 1))
    /\ (hi = end_hour - 1 \/ ~Worked(id, d, hi + 1))

\* C8: in every feasible schedule every maximal run of consecutive worked
\* hours of an employee on a day is at least min_shift_hours long, and no run
\* starts where fewer than min_shift_hours operating hours remain.
C8_MinShiftLength ==
    schedule.is_feasible =>
        \A e \in employees : \A d \in days_open :
            \A lo, hi \in get_operating_hours :
                MaximalRun(e.id, d, lo, hi) =>
                    /\ hi - lo + 1 >= policy.min_shift_hours
                    /\ end_hour - lo >= policy.min_shift_hours

\* C8 witness: with min_shift_hours of at least 2, a feasible schedule of an
\* optimal solve has a run that starts after the first operating hour.
C8_Witness ==
    /\ schedule.is_feasible
    /\ status = "OPTIMAL"
    /\ policy.min_shift_hours >= 2
    /\ \E e \in employees : \E d \in days_open : \E lo, hi \in get_operating_hours :
          MaximalRun(e.id, d, lo, hi) /\ lo > start_hour

\* C9: in every feasible schedule no employee works more than
\* max_hours_per_day hours on an open day, counted over all roles.
C9_DailyHourCap ==
    schedule.is_feasible =>
        \A e \in employees : \A d \in days_open :
            HoursThatDay(e.id, d) <= policy.max_hours_per_day

\* C9 witness: a feasible schedule of an optimal solve has an employee at
\* exactly the daily cap on a day that has more operating hours than the cap.
C9_Witness ==
    /\ schedule.is_feasible
    /\ status = "OPTIMAL"
    /\ Cardinality(get_operating_hours) > policy.max_hours_per_day
    /\ \E e \in employees : \E d \in days_open :
          HoursThatDay(e.id, d) = policy.max_hours_per_day

\* C10: in every feasible schedule each coverage requirement inside the
\* schedule window has at most max_staff employees assigned to its role at
\* its (day, hour).
C10_CoverageMaximum ==
    schedule.is_feasible =>
        \A req \in coverage_requirements :
            in_window(req) => Staffed(req.day, req.hour, req.role_id) <= req.max_staff

\* C10 witness: a feasible schedule of an optimal solve fills a requirement up
\* to its max_staff while more employees are eligible for the role.
C10_Witness ==
    /\ schedule.is_feasible
    /\ status = "OPTIMAL"
    /\ \E req \in coverage_requirements :
          /\ in_window(req)
          /\ req.max_staff >= 1
          /\ Cardinality(get_employees_for_role(req.role_id)) > req.max_staff
          /\ Staffed(req.day, req.hour, req.role_id) = req.max_staff

\* the raw assignment the returned feasible schedule was assembled from
Raw == previous_solutions[Len(previous_solutions)]

\* the emitted assignments of one (employee, day, role)
AssignmentsOf(id, d, r) ==
    {a \in schedule.assignments : a.employee_id = id /\ a.day = d /\ a.role_id = r}

\* C12: for each (employee, day, role) the emitted intervals are non-empty,
\* pairwise disjoint and non-adjacent, and their union is exactly the set of
\* hours with shift = 1; the sum of the assignment durations equals the sum
\* of employee_hours, which equals the number of shift = 1 cells.
C12_MaximalRuns ==
    (Returned /\ schedule.is_feasible) =>
        /\ \A a \in schedule.assignments :
              /\ a.start_hour < a.end_hour
              /\ \A h \in a.start_hour .. (a.end_hour - 1) :
                    /\ <<a.employee_id, a.day, h, a.role_id>> \in shift_vars
                    /\ Raw[<<a.employee_id, a.day, h, a.role_id>>] = 1
        /\ \A k \in shift_vars :
              Raw[k] = 1 => \E a \in AssignmentsOf(k[1], k[2], k[4]) :
                               a.start_hour <= k[3] /\ k[3] < a.end_hour
        /\ \A a, b \in schedule.assignments :
              (a # b /\ a.employee_id = b.employee_id /\ a.day = b.day
                     /\ a.role_id = b.role_id) =>
                  (a.end_hour < b.start_hour \/ b.end_hour < a.start_hour)
        /\ LET ids == DOMAIN schedule.employee_hours
               durations == SumOver(schedule.assignments,
                   [a \in schedule.assignments |-> a.end_hour - a.start_hour])
               hours == SumOver(ids, [id \in ids |-> schedule.employee_hours[id]])
           IN  /\ durations = hours
               /\ hours = Cardinality({k \in shift_vars : Raw[k] = 1})

\* C12 witness: a feasible schedule of an optimal solve has two runs of one
\* (employee, day, role).
C12_Witness ==
    /\ Returned /\ schedule.is_feasible /\ status = "OPTIMAL"
    /\ \E a, b \in schedule.assignments :
          /\ a # b /\ a.employee_id = b.employee_id
          /\ a.day = b.day /\ a.role_id = b.role_id

\* the employee has at least one emitted assignment on day d
HasAssignment(id, d) == \E a \in schedule.assignments : a.employee_id = id /\ a.day = d

\* lengths of the stretches of successive entries of days_open, in ascending
\* day index, on each of which the employee has an emitted assignment
WorkedStretches(id) ==
    LET days == sorted(days_open)
    IN  {j - i + 1 : <<i, j>> \in {p \in (1 .. Len(days)) \X (1 .. Len(days)) :
              p[1] <= p[2] /\ \A n \in p[1] .. p[2] : HasAssignment(id, days[n])}}

\* C13: for every employee of a feasible schedule, consecutive_days is the
\* length of the longest stretch of successive open days, in ascending day
\* index and without wrapping around the week, on each of which the
\* employee has an emitted assignment (0 when there is none).
C13_ConsecutiveDays ==
    schedule.is_feasible =>
        \A e \in employees :
            LET n == schedule.consecutive_days[e.id]
            IN  /\ \A m \in WorkedStretches(e.id) : m <= n
                /\ (n = 0 \/ n \in WorkedStretches(e.id))

\* C13 witness: a feasible schedule of an optimal solve has an employee who
\* works the first and the last open day of a three-day week and not the
\* day between them, and consecutive_days is 1.
C13_Witness ==
    /\ schedule.is_feasible /\ status = "OPTIMAL"
    /\ days_open = {0, 3, 6}
    /\ \E e \in employees :
          /\ HasAssignment(e.id, 0) /\ ~HasAssignment(e.id, 3) /\ HasAssignment(e.id, 6)
          /\ schedule.consecutive_days[e.id] = 1

\* the in-window requirements, read from the engine's fields
InWindow == {req \in coverage_requirements :
                 req.day \in days_open /\ req.hour \in start_hour .. (end_hour - 1)}

\* C14: for every feasible schedule, with filled the number of employees
\* assigned to a requirement's (day, hour, role): total_slots_required is
\* the sum of min_staff and total_slots_filled the sum of
\* min(filled, min_staff) over the in-window requirements, and
\* unfilled_slots has exactly one entry, with needed = min_staff - filled,
\* for each in-window requirement with filled < min_staff, and no other.
C14_CoverageMetrics ==
    schedule.is_feasible =>
        LET got(req) == Staffed(req.day, req.hour, req.role_id)
        IN  /\ schedule.metrics.total_slots_required =
                  SumOver(InWindow, [req \in InWindow |-> req.min_staff])
            /\ schedule.metrics.total_slots_filled =
                  SumOver(InWindow, [req \in InWindow |->
                      IF got(req) < req.min_staff THEN got(req) ELSE req.min_staff])
            /\ schedule.metrics.unfilled_slots =
                  {[day |-> req.day, hour |-> req.hour, role_id |-> req.role_id,
                    needed |-> req.min_staff - got(req), filled |-> got(req),
                    required |-> req.min_staff]
                      : req \in {q \in InWindow : got(q) < q.min_staff}}
            /\ schedule.total_hours_needed = schedule.metrics.total_slots_required
            /\ schedule.total_hours_filled = schedule.metrics.total_slots_filled

\* C14 witness: a feasible schedule has one in-window requirement staffed
\* above its min_staff and another one staffed below its min_staff.
C14_Witness ==
    /\ schedule.is_feasible
    /\ \E over, under \in InWindow :
          /\ Staffed(over.day, over.hour, over.role_id) > over.min_staff
          /\ Staffed(under.day, under.hour, under.role_id) < under.min_staff
          /\ Cardinality(schedule.metrics.unfilled_slots) = 1

\* C16: for a scenario with zero employees and the single coverage
\* requirement (Mon, 9, role, min_staff = 1), solve returns a schedule with
\* is_feasible = false whose unfilled_slots has length 1.
C16_EmptyBusinessInfeasible ==
    (Returned /\ employees = {} /\ coverage_requirements = {Req(0, 9, "r1", 1, 1)}) =>
        /\ ~schedule.is_feasible
        /\ Cardinality(schedule.metrics.unfilled_slots) = 1

\* a solve() call returns in this step, and the call before it on the engine
\* was a solve() too (no reset in between)
SuccessiveSolve == calls' = calls + 1 /\ Returned

\* C18 as stated: across successive solve calls on one engine without an
\* intervening reset, the solution_index of each returned schedule is
\* strictly greater than that of the schedule the previous call returned.
C18_IndexIncreasing ==
    [][SuccessiveSolve => schedule'.solution_index > schedule.solution_index]_vars

\* C18 amended: across successive solve calls without an intervening reset,
\* the solution_index of each returned feasible schedule is strictly greater
\* than that of the schedule the previous call returned; an infeasible
\* schedule has solution_index 0.
C18_FeasibleIndexIncreasing ==
    [][SuccessiveSolve =>
          IF schedule'.is_feasible
          THEN schedule'.solution_index > schedule.solution_index
          ELSE schedule'.solution_index = 0]_vars

\* C18 witness: a second solve call in a row on a scenario with a shift
\* variable has returned a feasible schedule, with solution_index 2.
C18_Witness ==
    /\ Returned /\ calls = 2 /\ shift_vars # {}
    /\ schedule.is_feasible /\ schedule.solution_index = 2

\* C19: reset() empties the list of prior raw solutions and changes neither
\* the scenario nor the policy fields; the first solve after reset(), also
\* with find_alternative = true, excludes nothing (it is feasible exactly
\* when the model without exclusions has a solution) and, when feasible,
\* returns solution_index = 1 and holds that one raw solution.
C19_ResetClearsSolutions ==
    [][/\ call' = "reset" =>
             (previous_solutions' = << >> /\ UNCHANGED scenario)
       /\ (call = "reset" /\ calls' = calls + 1) =>
             /\ schedule'.is_feasible <=> Solutions(<< >>) # {}
             /\ schedule'.is_feasible =>
                   /\ schedule'.solution_index = 1
                   /\ Len(previous_solutions') = 1
                   /\ previous_solutions'[1] \in Solutions(<< >>)]_vars

\* C19 witness: on a scenario whose model has shift variables and exactly
\* one solution, a solve(find_alternative = true) that follows earlier solve
\* calls and a reset() returns that solution again, with solution_index 1.
C19_Witness ==
    /\ call = "alternative" /\ calls >= 2
    /\ shift_vars # {}
    /\ Cardinality(Solutions(<< >>)) = 1
    /\ schedule.is_feasible /\ schedule.solution_index = 1
    /\ Len(previous_solutions) = 1

\* a scenario the input validation is to reject
InvalidScenario ==
    \/ \E e \in employees :
          e.roles = {} \/ ~(e.roles \subseteq Roles) \/ e.min_hours > e.max_hours
    \/ \E req \in coverage_requirements :
          req.role_id \notin Roles \/ req.min_staff < 0 \/ req.max_staff < 0
    \/ start_hour >= end_hour

\* C20: a scenario with an employee without roles, a reference to an unknown
\* role id, min_hours > max_hours, start_hour >= end_hour or a negative staff
\* count is rejected before any model is built: solve never returns a
\* Schedule, feasible or infeasible, for it.
C20_InvalidScenarioRejected == InvalidScenario => ~Returned

\* the template role requirements <<template, requirement>> that cover the
\* slot (d, h) of role r
Covering(d, h, r) ==
    {tr \in UNION {{<<i, j>> : j \in DOMAIN shift_templates[i].roles} :
                        i \in DOMAIN shift_templates} :
        /\ d \in shift_templates[tr[1]].days \cap days_open
        /\ h \in shift_templates[tr[1]].start_hour .. (shift_templates[tr[1]].end_hour - 1)
        /\ h \in start_hour .. (end_hour - 1)
        /\ shift_templates[tr[1]].roles[tr[2]].role_id = r}

\* the role requirement a pair <<template, requirement>> names
RoleReqOf(tr) == shift_templates[tr[1]].roles[tr[2]]

\* the requirements of a compiled list for the slot (d, h) of role r
CompiledFor(d, h, r) ==
    {n \in DOMAIN compiled :
        compiled[n].day = d /\ compiled[n].hour = h /\ compiled[n].role_id = r}

\* C11: the list a Shifts-mode call of the coverage compiler returns holds
\* exactly one requirement for every (day, hour, role) that some template
\* role requirement covers on an open day inside operating hours, with
\* min_staff the sum of the covering counts and max_staff the sum of the
\* covering max_count (count where max_count is not set), and holds no
\* requirement for any other (day, hour, role).
C11_ShiftsCompilation ==
    (call = "generate" /\ coverage_mode = "shifts") =>
        \A d \in 0 .. 6 : \A h \in 0 .. 23 : \A r \in Roles :
            IF Covering(d, h, r) = {}
            THEN CompiledFor(d, h, r) = {}
            ELSE /\ Cardinality(CompiledFor(d, h, r)) = 1
                 /\ \A n \in CompiledFor(d, h, r) :
                      /\ compiled[n].min_staff =
                            SumOver(Covering(d, h, r),
                                    [tr \in Covering(d, h, r) |-> RoleReqOf(tr).count])
                      /\ compiled[n].max_staff =
                            SumOver(Covering(d, h, r),
                                    [tr \in Covering(d, h, r) |->
                                        IF RoleReqOf(tr).max_count > 0
                                        THEN RoleReqOf(tr).max_count
                                        ELSE RoleReqOf(tr).count])

\* the compiler has run on the templates 9-13 and 12-15 of one role with
\* count 1 on an open Monday of a business open 9-15, and returned the
\* minima 1, 1, 1, 2, 1, 1 for the hours 9..14
C11_Witness ==
    /\ call = "generate" /\ coverage_mode = "shifts"
    /\ shift_templates = <<MorningTemplate,
                           Template(12, 15, {0}, <<RoleReq("r1", 1, 0)>>)>>
    /\ end_hour = 15
    /\ Len(compiled) = 6
    /\ \A n \in 1 .. 6 :
          /\ compiled[n].day = 0 /\ compiled[n].hour = 8 + n
          /\ compiled[n].min_staff = <<1, 1, 1, 2, 1, 1>>[n]
          /\ compiled[n].max_staff = <<1, 1, 1, 2, 1, 1>>[n]

\* the operation before this one ended with a compilation of the scenario
\* as it is now
CompiledJustBefore ==
    \/ call \in {"init", "generate", "set_mode"}
    \/ call \in {"add_shift", "delete_shift"} /\ coverage_mode = "shifts"
    \/ call \in {"update_configs", "rebuild"} /\ role_coverage_configs # << >>

C17_SolveUsesCurrentCoverage ==
    [][calls' = calls + 1 => coverage_requirements = stored(current_coverage)]_vars

\* number of shift starts the schedule shows for an employee on a day: worked
\* hours whose preceding operating hour is not worked
StartsThatDay(id, d) ==
    Cardinality({h \in get_operating_hours :
                    Worked(id, d, h) /\ (h = start_hour \/ ~Worked(id, d, h - 1))})

\* C22: in every feasible schedule each employee has at most
\* max_splits_per_day shift starts on each open day.
C22_MaxSplitsPerDay ==
    schedule.is_feasible =>
        \A e \in employees : \A d \in days_open :
            StartsThatDay(e.id, d) <= policy.max_splits_per_day

\* C22 witness: with max_splits_per_day 1 and split days allowed by the
\* weekly limit, a feasible schedule of an optimal solve has an employee
\* working one segment on a day of three operating hours
C22_Witness ==
    /\ schedule.is_feasible /\ status = "OPTIMAL"
    /\ policy.max_splits_per_day = 1 /\ policy.max_split_shifts_per_week >= 1
    /\ Cardinality(get_operating_hours) >= 3
    /\ \E e \in employees : \E d \in days_open : StartsThatDay(e.id, d) = 1

\* the open days on which the schedule shows two or more shift starts
SplitDays(id) == {d \in days_open : StartsThatDay(id, d) >= 2}

\* C23: in every feasible schedule each employee has two or more shift
\* starts on at most max_split_shifts_per_week open days.
C23_MaxSplitShiftsPerWeek ==
    schedule.is_feasible =>
        \A e \in employees :
            Cardinality(SplitDays(e.id)) <= policy.max_split_shifts_per_week

\* C23 witness: a feasible schedule of an optimal solve has an employee with
\* a split on exactly max_split_shifts_per_week = 1 of two open days
C23_Witness ==
    /\ schedule.is_feasible /\ status = "OPTIMAL"
    /\ policy.max_split_shifts_per_week = 1
    /\ Cardinality(days_open) = 2
    /\ \E e \in employees : Cardinality(SplitDays(e.id)) = 1

\* the days of the week on which the schedule assigns the employee an hour
DaysWorked(id) == {d \in 0 .. 6 : \E h \in 0 .. 23 : Worked(id, d, h)}

\* the max-days cap of the employee's classification
MaxDaysOf(emp) == IF emp.is_full_time THEN policy.max_days_ft ELSE policy.max_days_pt

\* the max-days mode of the employee's classification
MaxDaysModeOf(emp) ==
    IF emp.is_full_time THEN policy.max_days_ft_mode ELSE policy.max_days_pt_mode

\* C24: in every feasible schedule an employee whose classification has the
\* max-days mode 'required' is assigned hours on at most max_days_ft
\* (full-time) or max_days_pt (part-time) days.
C24_MaxDaysRequired ==
    schedule.is_feasible =>
        \A e \in employees :
            MaxDaysModeOf(e) = "required" =>
                Cardinality(DaysWorked(e.id)) <= MaxDaysOf(e)

\* C24 witness: a feasible schedule of an optimal solve has an employee in
\* mode 'required' working exactly the cap, on a week with more open days
C24_Witness ==
    /\ schedule.is_feasible /\ status = "OPTIMAL"
    /\ \E e \in employees :
          /\ MaxDaysModeOf(e) = "required"
          /\ Cardinality(DaysWorked(e.id)) = MaxDaysOf(e)
          /\ Cardinality(days_open) > MaxDaysOf(e)

\* C28: every ShiftAssignment of a feasible schedule spans at least
\* min_shift_hours hours.
C28_AssignmentMinLength ==
    schedule.is_feasible =>
        \A a \in schedule.assignments :
            a.end_hour - a.start_hour >= policy.min_shift_hours

\* C30: a feasible solve, with find_alternative true or false, lengthens the
\* engine's previous-solutions list by one; an infeasible solve leaves the
\* list as it is and returns solution_index 0; reset empties the list; so
\* the length is the number of feasible solves since construction or the
\* last reset.
C30_SolutionsCountFeasibleSolves ==
    [][/\ (calls' = calls + 1 /\ schedule'.is_feasible) =>
              Len(previous_solutions') = Len(previous_solutions) + 1
       /\ (calls' = calls + 1 /\ ~schedule'.is_feasible) =>
              (previous_solutions' = previous_solutions /\ schedule'.solution_index = 0)
       /\ (calls' = calls /\ call' = "reset") => previous_solutions' = << >>
       /\ (calls' = calls /\ call' # "reset") => previous_solutions' = previous_solutions
      ]_vars

\* C30 witness: after two feasible solves the list holds the same solution
\* twice
C30_Witness ==
    /\ Returned /\ schedule.is_feasible
    /\ Len(previous_solutions) = 2
    /\ previous_solutions[1] = previous_solutions[2]

\* a solve(find_alternative=true) call on a scenario with shift variables
AlternativeStep == calls' = calls + 1 /\ call' = "alternative" /\ shift_vars # {}

\* number of assignments that satisfy the hard constraints and differ from
\* every solution of the list
Remaining(solutions) == Cardinality(Solutions(solutions))

TimeOffApplied ==
    call \in {"generate_schedule:time_off", "find_alternative:time_off",
              "generate_schedule", "find_alternative"}

\* a schedule handler has responded
Responded == call \in {"generate_schedule", "find_alternative"}

\* the request is approved and overlaps the week asked for
ApprovedThisWeek(req) ==
    /\ req.status = "approved"
    /\ req.start_date <= get_week_start(week) + 6
    /\ req.end_date >= get_week_start(week)

\* the dates of the request inside the week asked for
DatesThisWeek(req) ==
    {a_date \in req.start_date .. req.end_date :
        a_date >= get_week_start(week) /\ a_date <= get_week_start(week) + 6}

\* C25: once a schedule handler has applied the approved time off for its
\* week, the employee of every approved request that overlaps the week has
\* time_off on all hours 0..23 of the weekday of every date of the overlap,
\* and a feasible schedule of the solve that follows assigns that employee no
\* hour on that day; every time_off slot stems from an approved request of
\* the employee; availability and preferences are as they were.
C25_ApprovedTimeOffBlocksDay ==
    TimeOffApplied =>
        /\ \A req \in pto_requests : ApprovedThisWeek(req) =>
              \A a_date \in DatesThisWeek(req) : \A e \in employees :
                  e.id = req.employee_id =>
                      \A hour \in 0 .. 23 :
                          /\ <<weekday(a_date), hour>> \in e.time_off
                          /\ (Responded /\ schedule.is_feasible) =>
                                 ~Worked(e.id, weekday(a_date), hour)
        /\ \A e \in employees : \A slot \in e.time_off :
              \E req \in pto_requests :
                  /\ req.status = "approved" /\ req.employee_id = e.id
                  /\ \E a_date \in req.start_date .. req.end_date :
                        weekday(a_date) = slot[1]
        /\ \A e \in employees :
              /\ e.availability = BaseEmployee(e.id).availability
              /\ e.preferences = BaseEmployee(e.id).preferences

\* C25 witness: the schedule for next week was generated first, for an
\* employee with approved time off from this Sunday to next Tuesday: Monday
\* and Tuesday are blocked, and the optimal schedule has the employee
\* working the Sunday only
C25_Witness ==
    /\ call = "generate_schedule" /\ calls = 1 /\ week = 1
    /\ schedule.is_feasible /\ status = "OPTIMAL"
    /\ pto_requests = {Request("A", "approved", 6, 8)}
    /\ \A e \in employees :
          e.time_off = {<<day, hour>> : day \in {0, 1}, hour \in 0 .. 23}
    /\ Worked("A", 6, 9)
    /\ ~Worked("A", 0, 9) /\ ~Worked("A", 1, 9)

\* C26: once a schedule handler has applied the time off for its week, every
\* time_off slot of an employee lies on the weekday of a date that an
\* approved request of the employee covers inside that week.
C26_TimeOffOnlyForWeek ==
    TimeOffApplied =>
        \A e \in employees : \A slot \in e.time_off :
            \E req \in pto_requests :
                /\ ApprovedThisWeek(req) /\ req.employee_id = e.id
                /\ \E a_date \in DatesThisWeek(req) : weekday(a_date) = slot[1]

\* C27: a feasible schedule returned by the find_alternative handler
\* differs in some assignment from the feasible schedule of the response
\* before it, when both were asked for the same week.
C27_AlternativeRequestDiffers ==
    [][(/\ call = "find_alternative:time_off" /\ call' = "find_alternative"
        /\ calls >= 1 /\ last_week = week
        /\ schedule.is_feasible /\ schedule'.is_feasible) =>
            schedule'.slot_assignments # schedule.slot_assignments]_vars

\* C21: saving a business and reading it back gives a scenario equal to the
\* saved one in every field: operating hours, open days, employees with
\* their availability, preferences and time_off, shift templates, coverage
\* mode, peak_periods, role_coverage_configs and coverage requirements.
C21_RoundTrip ==
    [][call' = "load" =>
          /\ start_hour' = start_hour /\ end_hour' = end_hour
          /\ days_open' = days_open
          /\ employees' = employees
          /\ shift_templates' = shift_templates
          /\ coverage_mode' = coverage_mode
          /\ peak_periods' = peak_periods
          /\ role_coverage_configs' = role_coverage_configs
          /\ business_coverage' = business_coverage]_vars

====
